---- MODULE Spec2Model ----
(***************************************************************************)
(* Model of src/streamlit_app.py: the taxi expense justification form.     *)
(*                                                                         *)
(* A Python str is a sequence of one-character strings (the empty str is   *)
(* <<>>), so that strip, replace, join and the CSV quoting are computed    *)
(* character by character.  A printable ASCII character, a tab, a line     *)
(* feed, a form feed or a carriage return is the string of that character; *)
(* any other character is the string "U+" and its four hexadecimal digits  *)
(* ("U+00A0" is the no-break space).  The fixed template text of the HTML render is  *)
(* kept as TLA+ strings.  A value that may be None is a sequence of length *)
(* at most one (None is <<>>).  The form's fare is the float nearest to a  *)
(* whole number of thousandths of a dollar, written as that integer; a     *)
(* record's fare is a float of whole cents, written as its sign and its    *)
(* cents (-0.0 is [neg |-> TRUE, cents |-> 0]); a distance is in tenths of *)
(* a kilometre.                                                            *)
(***************************************************************************)
EXTENDS Integers, Sequences, FiniteSets, TLC

\* ------------------------------------------------------------------ bounds

\* The session accepts at most this many records in a checked behaviour.
MaxRecords == 3

\* ------------------------------------------------------------ Python values

None == <<>>

Some(v) == <<v>>

\* str.strip() with no argument removes leading and trailing whitespace:
\* the characters c with c.isspace().
Whitespace ==
  { " ", "\t", "\n", "\f", "\r", "U+000B", "U+001C", "U+001D", "U+001E", "U+001F",
    "U+0085", "U+00A0", "U+1680", "U+2000", "U+2001", "U+2002", "U+2003", "U+2004",
    "U+2005", "U+2006", "U+2007", "U+2008", "U+2009", "U+200A", "U+2028", "U+2029",
    "U+202F", "U+205F", "U+3000" }

RECURSIVE lstrip(_)
lstrip(s) == IF s # <<>> /\ Head(s) \in Whitespace THEN lstrip(Tail(s)) ELSE s

RECURSIVE rstrip(_)
rstrip(s) ==
  IF s # <<>> /\ s[Len(s)] \in Whitespace THEN rstrip(SubSeq(s, 1, Len(s) - 1)) ELSE s

\* A strip that forgets the trailing whitespace.
strip_leading_only(s) == lstrip(s)

strip(s) == rstrip(lstrip(s))

\* s.replace(old, new) for a one-character old.
RECURSIVE replace(_, _, _)
replace(s, old, new) ==
  IF s = <<>> THEN <<>>
  ELSE (IF Head(s) = old THEN new ELSE <<Head(s)>>) \o replace(Tail(s), old, new)

\* sep.join(parts)
RECURSIVE join(_, _)
join(sep, parts) ==
  IF parts = <<>> THEN <<>>
  ELSE IF Len(parts) = 1 THEN parts[1]
  ELSE parts[1] \o sep \o join(sep, Tail(parts))

\* x or default, for a str x
OrElse(x, default) == IF x # <<>> THEN x ELSE default

Digit(n) == <<"0", "1", "2", "3", "4", "5", "6", "7", "8", "9">>[n + 1]

\* str(n) for an int n >= 0
RECURSIVE IntStr(_)
IntStr(n) == IF n < 10 THEN <<Digit(n)>> ELSE IntStr(n \div 10) \o <<Digit(n % 10)>>

\* n zero-padded to width w (%02d, %04d)
RECURSIVE Pad(_, _)
Pad(n, w) == IF w = 0 THEN <<>> ELSE Pad(n \div 10, w - 1) \o <<Digit(n % 10)>>

\* date.isoformat(): YYYY-MM-DD
isoformat(d) == Pad(d.y, 4) \o <<"-">> \o Pad(d.m, 2) \o <<"-">> \o Pad(d.d, 2)

\* time.strftime("%H:%M")
strftime(t) == Pad(t.h, 2) \o <<":">> \o Pad(t.mi, 2)

\* b^n % m
RECURSIVE PowMod(_, _, _)
PowMod(b, n, m) == IF n = 0 THEN 1 % m ELSE (b * PowMod(b, n - 1, m)) % m

\* The binary exponent e of k / 1000 for k > 0: 2^e <= k / 1000 < 2^(e + 1).
RECURSIVE ExponentUp(_, _)
ExponentUp(k, e) == IF 1000 * 2^(e + 1) <= k THEN ExponentUp(k, e + 1) ELSE e

RECURSIVE ExponentDown(_, _)
ExponentDown(k, j) == IF k * 2^j >= 1000 THEN -j ELSE ExponentDown(k, j + 1)

BinaryExponent(k) == IF k >= 1000 THEN ExponentUp(k, 0) ELSE ExponentDown(k, 1)

\* float(k / 1000) is k / 1000 rounded to 53 significant bits.  The part of
\* k * 2^(52 - e) / 1000 that the rounding drops, in thousandths of the last
\* bit: 0 when the float is exact, below 500 when the float is the smaller.
DroppedBits(k) == ((k % 1000) * PowMod(2, 52 - BinaryExponent(k), 1000)) % 1000

\* round(x, 2) of the float x nearest to k / 1000, k >= 0, in cents: the
\* nearest cent of the float's exact value, and the even cent on a tie.
RoundCents(k) ==
  IF k % 10 # 5 THEN (k + 5) \div 10
  ELSE IF DroppedBits(k) = 0
       THEN (IF (k \div 10) % 2 = 0 THEN k \div 10 ELSE k \div 10 + 1)
  ELSE IF DroppedBits(k) < 500 THEN k \div 10
  ELSE k \div 10 + 1

\* round(float(fare_amount), 2)
round2(mills) ==
  [neg |-> mills < 0, cents |-> RoundCents(IF mills < 0 THEN -mills ELSE mills)]

\* str() of a float of whole cents: 45.5, 45.0, 12.35, -0.0
FloatStrCents(x) ==
  (IF x.neg THEN <<"-">> ELSE <<>>) \o IntStr(x.cents \div 100) \o <<".">>
  \o (IF x.cents % 10 = 0 THEN <<Digit((x.cents % 100) \div 10)>>
      ELSE <<Digit((x.cents % 100) \div 10), Digit(x.cents % 10)>>)

\* str() of a float holding a whole number of tenths: 3.5, 12.0
FloatStrTenths(t) == IntStr(t \div 10) \o <<".">> \o <<Digit(t % 10)>>

\* dict.get(key, default)
Get(row, key, default) == IF key \in DOMAIN row THEN row[key] ELSE default

\* What a list of statements appends or draws, in order.
RECURSIVE Statements(_)
Statements(calls) == IF calls = <<>> THEN <<>> ELSE Head(calls) \o Statements(Tail(calls))

\* An insertion at the front instead of the end.
prepend(list, x) == << x >> \o list

\* list.append
append(list, x) == Append(list, x)

\* ------------------------------------------------------------ fixed texts

NA == <<"N","/","A">>

Department == <<"S","e","r","v","i","c","e"," ","E","n","g","i","n","e","e","r","i","n","g">>

Position == <<"S","e","r","v","i","c","e"," ","E","n","g","i","n","e","e","r">>

EquipmentTransport == <<"E","q","u","i","p","m","e","n","t"," ","T","r","a","n","s","p","o","r","t">>

EarlyArrival == <<"E","a","r","l","y"," ","A","r","r","i","v","a","l"," ","R","e","q","u","i","r","e","m","e","n","t">>

EmergencyCall == <<"E","m","e","r","g","e","n","c","y"," ","C","a","l","l">>

SpecialEvent == <<"S","p","e","c","i","a","l"," ","E","v","e","n","t","/","M","e","e","t","i","n","g">>

TimeCritical == <<"T","i","m","e","-","C","r","i","t","i","c","a","l"," ","S","e","r","v","i","c","e">>

WeatherSafety == <<"W","e","a","t","h","e","r","/","S","a","f","e","t","y"," ","C","o","n","d","i","t","i","o","n","s">>

PublicTransport == <<"P","u","b","l","i","c"," ","T","r","a","n","s","p","o","r","t"," ","U","n","a","v","a","i","l","a","b","l","e">>

Other == <<"O","t","h","e","r">>

reason_options ==
  << EquipmentTransport, EarlyArrival, EmergencyCall, SpecialEvent,
     TimeCritical, WeatherSafety, PublicTransport, Other >>

ServiceTypes ==
  << <<"I","n","s","t","a","l","l","a","t","i","o","n">>, <<"M","a","i","n","t","e","n","a","n","c","e">>, <<"R","e","p","a","i","r">>, <<"F","o","l","l","o","w","-","u","p">>, <<"O","t","h","e","r">> >>

ReceiptTypes ==
  << <<"O","r","i","g","i","n","a","l"," ","t","a","x","i"," ","r","e","c","e","i","p","t"," ","a","t","t","a","c","h","e","d">>, <<"E","l","e","c","t","r","o","n","i","c"," ","r","e","c","e","i","p","t"," ","a","t","t","a","c","h","e","d">>,
     <<"H","a","n","d","-","w","r","i","t","t","e","n"," ","r","e","c","e","i","p","t"," ","(","i","f"," ","m","a","c","h","i","n","e","-","p","r","i","n","t","e","d"," ","n","o","t"," ","a","v","a","i","l","a","b","l","e",")">> >>

MaxUploadBytes == 8 * 1024 * 1024

\* ------------------------------------------------------------ validation

\* A validate_money without the comparison.
validate_money_unchecked(amount) == amount # None

validate_money(amount) == amount # None /\ amount[1] >= 0

\* The checked reason labels, in the order of reason_options.
selected(form) == SelectSeq(reason_options, LAMBDA label : label \in form.checked)

InSeq(x, s) == \E i \in 1..Len(s) : s[i] = x

\* The "Other (describe)" input exists only when "Other" is checked.
reason_other(form) == IF InSeq(Other, selected(form)) THEN form.other_text ELSE <<>>

Check(cond, message) == IF cond THEN <<message>> ELSE <<>>

\* The checks as an if/elif chain: only the first failure is reported.
ErrorsShortCircuit(form) ==
  IF strip(form.employee_name) = <<>> THEN << "Employee Name is required." >>
  ELSE IF strip(form.from_location) = <<>> THEN << "Pick-up Location is required." >>
  ELSE IF strip(form.to_location) = <<>> THEN << "Destination is required." >>
  ELSE IF ~validate_money(form.fare_amount)
       THEN << "Fare amount must be a non-negative number." >>
  ELSE IF selected(form) = <<>> THEN << "Select at least one primary reason." >>
  ELSE IF InSeq(Other, selected(form)) /\ strip(reason_other(form)) = <<>>
       THEN << "Please describe the 'Other' reason." >>
  ELSE IF strip(form.work_description) = <<>>
       THEN << "Brief description of work/purpose is required." >>
  ELSE IF form.receipt_file # None /\ form.receipt_file[1].size > MaxUploadBytes
       THEN << "Receipt file is too large (>8MB). Please upload a smaller file." >>
  ELSE <<>>

Errors(form) ==
  Statements(<<
    Check(strip(form.employee_name) = <<>>, "Employee Name is required."),
    Check(strip(form.from_location) = <<>>, "Pick-up Location is required."),
    Check(strip(form.to_location) = <<>>, "Destination is required."),
    Check(~validate_money(form.fare_amount), "Fare amount must be a non-negative number."),
    Check(selected(form) = <<>>, "Select at least one primary reason."),
    Check(InSeq(Other, selected(form)) /\ strip(reason_other(form)) = <<>>,
          "Please describe the 'Other' reason."),
    Check(strip(form.work_description) = <<>>,
          "Brief description of work/purpose is required."),
    Check(form.receipt_file # None /\ form.receipt_file[1].size > MaxUploadBytes,
          "Receipt file is too large (>8MB). Please upload a smaller file.") >>)

BuildRecord(form) ==
  [ employee_name |-> strip(form.employee_name),
    department |-> Department,
    position |-> Position,
    submission_date |-> isoformat(form.date_submission),
    date_of_travel |-> isoformat(form.date_of_travel),
    time_of_travel |-> strftime(form.time_of_travel),
    from_location |-> strip(form.from_location),
    to_location |-> strip(form.to_location),
    fare_amount |-> round2(form.fare_amount[1]),
    receipt_number |-> strip(form.receipt_number),
    primary_reasons |-> selected(form),
    reason_other |-> strip(reason_other(form)),
    client |-> strip(form.client),
    service_type |-> form.service_type,
    equipment |-> strip(form.equipment),
    work_description |-> strip(form.work_description),
    receipt_type |-> form.receipt_type,
    license_plate |-> strip(form.license_plate),
    start_time |-> IF form.start_time # None THEN strftime(form.start_time[1]) ELSE <<>>,
    end_time |-> IF form.end_time # None THEN strftime(form.end_time[1]) ELSE <<>>,
    distance_km |-> IF form.distance_km # 0 THEN Some(form.distance_km) ELSE <<>>,
    uploaded_receipt_name |-> IF form.receipt_file # None THEN form.receipt_file[1].name
                              ELSE <<>> ]

\* The keys of a record in insertion order: the columns of DataFrame(records).
Columns ==
  << "employee_name", "department", "position", "submission_date", "date_of_travel",
     "time_of_travel", "from_location", "to_location", "fare_amount", "receipt_number",
     "primary_reasons", "reason_other", "client", "service_type", "equipment",
     "work_description", "receipt_type", "license_plate", "start_time", "end_time",
     "distance_km", "uploaded_receipt_name" >>

\* ------------------------------------------------------------ HTML render

\* The returned str is the concatenation of these parts in order: Lit is a
\* piece of the template, Val the text put in at a replacement field.
Lit(s) == [lit |-> s]

Val(name, chars) == [field |-> name, text |-> chars]

RECURSIVE html_badges(_)
html_badges(reasons) ==
  IF reasons = <<>> THEN <<>>
  ELSE << Lit("<span class=\"badge\">"), Val("primary_reasons", Head(reasons)),
          Lit("</span>") >> \o html_badges(Tail(reasons))

\* {reasons_html or "N/A"}
html_reasons(row) ==
  IF Get(row, "primary_reasons", <<>>) = <<>> THEN << Val("primary_reasons", NA) >>
  ELSE html_badges(row.primary_reasons)

html_equip(row) == OrElse(strip(OrElse(Get(row, "equipment", <<>>), <<>>)), NA)

html_distance_str(row) ==
  IF Get(row, "distance_km", <<>>) # <<>>
  THEN FloatStrTenths(row.distance_km[1]) \o <<" ","k","m">> ELSE NA

html_desc(row) == replace(OrElse(Get(row, "work_description", <<>>), <<>>), "\n", <<"<","b","r",">">>)

styles ==
  "\n    <style>\n      .print-card {font-family: Arial, sans-serif; max-width: 900px; margin: 0 auto; color: #222;}\n      .print-card h2 {margin-bottom: 0.2rem;}\n      .grid {display: grid; grid-template-columns: 1fr 1fr; gap: 8px 24px;}\n      .section {border-top: 1px solid #ddd; margin-top: 16px; padding-top: 12px;}\n      .mono {font-family: ui-monospace, SFMono-Regular, Menlo, Consolas, \"Liberation Mono\", monospace; white-space: pre-wrap;}\n      .badge {display:inline-block; padding:2px 6px; border:1px solid #999; border-radius:6px; margin:2px 6px 2px 0; font-size:12px;}\n      .small {font-size: 12px; color: #555;}\n    </style>\n    "

to_printable_html(row) ==
  << Lit("\n    "),
     Lit(styles),
     Lit("\n    <div class=\"print-card\">\n      <h2>Taxi Expense Justification Form</h2>\n      <div class=\"small\">Montsmed HK</div>\n\n      <div class=\"section\">\n        <h3>Employee information</h3>\n        <div class=\"grid\">\n          <div><strong>Employee Name:</strong> "),
     Val("employee_name", Get(row, "employee_name", <<>>)),
     Lit("</div>\n          <div><strong>Department:</strong> Service Engineering</div>\n          <div><strong>Position:</strong> Service Engineer</div>\n          <div><strong>Date of Submission:</strong> "),
     Val("submission_date", Get(row, "submission_date", <<>>)),
     Lit("</div>\n        </div>\n      </div>\n\n      <div class=\"section\">\n        <h3>Trip details</h3>\n        <div class=\"grid\">\n          <div><strong>Date of Travel:</strong> "),
     Val("date_of_travel", Get(row, "date_of_travel", <<>>)),
     Lit("</div>\n          <div><strong>Time of Travel:</strong> "),
     Val("time_of_travel", Get(row, "time_of_travel", <<>>)),
     Lit("</div>\n          <div><strong>From:</strong> "),
     Val("from_location", Get(row, "from_location", <<>>)),
     Lit("</div>\n          <div><strong>To:</strong> "),
     Val("to_location", Get(row, "to_location", <<>>)),
     Lit("</div>\n          <div><strong>Taxi Fare Amount:</strong> HK$ "),
     Val("fare_amount", IF "fare_amount" \in DOMAIN row THEN FloatStrCents(row.fare_amount) ELSE <<>>),
     Lit("</div>\n          <div><strong>Receipt Number:</strong> "),
     Val("receipt_number", Get(row, "receipt_number", <<>>)),
     Lit("</div>\n        </div>\n      </div>\n\n      <div class=\"section\">\n        <h3>Justification</h3>\n        <div>") >>
  \o html_reasons(row)
  \o << Lit("</div>\n        <div><strong>Other (details):</strong> "),
        Val("reason_other", OrElse(Get(row, "reason_other", <<>>), NA)),
        Lit("</div>\n      </div>\n\n      <div class=\"section\">\n        <h3>Work details</h3>\n        <div class=\"grid\">\n          <div><strong>Client/Customer:</strong> "),
        Val("client", Get(row, "client", <<>>)),
        Lit("</div>\n          <div><strong>Type of Service:</strong> "),
        Val("service_type", Get(row, "service_type", <<>>)),
        Lit("</div>\n          <div><strong>Equipment (if any):</strong> "),
        Val("equipment", html_equip(row)),
        Lit("</div>\n        </div>\n        <div style=\"margin-top:8px;\">\n          <strong>Brief Description:</strong>\n          <div class=\"mono\">"),
        Val("work_description", html_desc(row)),
        Lit("</div>\n        </div>\n      </div>\n\n      <div class=\"section\">\n        <h3>Receipt info</h3>\n        <div class=\"grid\">\n          <div><strong>Receipt Attached:</strong> "),
        Val("receipt_type", Get(row, "receipt_type", NA)),
        Lit("</div>\n          <div><strong>Taxi License Plate:</strong> "),
        Val("license_plate", Get(row, "license_plate", <<>>)),
        Lit("</div>\n          <div><strong>Start Time:</strong> "),
        Val("start_time", Get(row, "start_time", <<>>)),
        Lit("</div>\n          <div><strong>End Time:</strong> "),
        Val("end_time", Get(row, "end_time", <<>>)),
        Lit("</div>\n          <div><strong>Distance:</strong> "),
        Val("distance_km", html_distance_str(row)),
        Lit("</div>\n        </div>\n      </div>\n    </div>\n    ") >>

\* ------------------------------------------------------------ CSV export

\* repr() of a list of str without quotes in them: ['a', 'b']
ListRepr(list) ==
  <<"[">> \o join(<<","," ">>, [i \in 1..Len(list) |-> <<"'">> \o list[i] \o <<"'">>]) \o <<"]">>

\* The text DataFrame.to_csv writes for one value.
CsvValue(row, col) ==
  IF col = "fare_amount" THEN FloatStrCents(row[col])
  ELSE IF col = "distance_km"
       THEN (IF row[col] = <<>> THEN <<>> ELSE FloatStrTenths(row[col][1]))
  ELSE IF col = "primary_reasons" THEN ListRepr(row[col])
  ELSE row[col]

\* The characters csv.QUOTE_MINIMAL quotes a field for: the delimiter, the
\* quote character and the characters of the line terminator "\n"; the csv
\* module of Python 3.13 and later adds "\r", whatever the line terminator.
\* The repository pins no interpreter, so quotes_cr is either.
QuotedChars(quotes_cr) ==
  {",", "\"", "\n"} \cup (IF quotes_cr THEN {"\r"} ELSE {})

\* A field holding one of these characters is wrapped in quotes, its quotes
\* doubled.
CsvField(s, quotes_cr) ==
  IF \E i \in 1..Len(s) : s[i] \in QuotedChars(quotes_cr)
  THEN <<"\"">> \o replace(s, "\"", <<"\"","\"">>) \o <<"\"">>
  ELSE s

DataFrameColumns(records) == Columns

\* The lines of the file: the header's column labels, then the fields of one
\* line per record.  The bytes are the fields of each line joined by "," and
\* every line ended by a line break; b"" is <<>>.
record_to_csv_bytes(records, quotes_cr) ==
  IF records = <<>> THEN <<>>
  ELSE << DataFrameColumns(records) >>
       \o [i \in 1..Len(records) |->
             [j \in 1..Len(DataFrameColumns(records)) |->
                CsvField(CsvValue(records[i], DataFrameColumns(records)[j]), quotes_cr)]]

\* DataFrame(records).drop(columns=[name], errors="ignore")
drop(columns, name) == SelectSeq(columns, LAMBDA c : c # name)

SavedEntries(records) ==
  [ columns |-> drop(Columns, "primary_reasons"),
    rows |-> [i \in 1..Len(records) |->
                [j \in 1..Len(drop(Columns, "primary_reasons")) |->
                   records[i][drop(Columns, "primary_reasons")[j]]]] ]

\* ------------------------------------------------------------ PDF render

\* The module imports datetime, pandas, streamlit and fpdf.FPDF only: the
\* name Path that pdf_from_record reads first is bound nowhere.
PathIsBound == FALSE

\* The lines multi_cell draws for a text: one per line of the text.
RECURSIVE SplitLines(_)
SplitLines(s) ==
  IF \A i \in 1..Len(s) : s[i] # "\n" THEN << s >>
  ELSE LET k == CHOOSE i \in 1..Len(s) : s[i] = "\n" /\ \A j \in 1..(i - 1) : s[j] # "\n"
       IN << SubSeq(s, 1, k - 1) >> \o SplitLines(SubSeq(s, k + 1, Len(s)))

cell(txt) == [op |-> "cell", lines |-> << txt >>]

multi_cell(txt) == [op |-> "multi_cell", lines |-> SplitLines(txt)]

section(title) == << cell(title) >>

kv_text(value) == IF value # <<>> THEN value ELSE NA

kv(label, value) == << cell(label \o <<":">>), multi_cell(kv_text(value)) >>

pdf_fare(record) ==
  <<"H","K","$"," ">> \o (IF "fare_amount" \in DOMAIN record THEN FloatStrCents(record.fare_amount)
               ELSE <<>>)

pdf_distance(record) ==
  IF Get(record, "distance_km", <<>>) # <<>>
  THEN FloatStrTenths(record.distance_km[1]) \o <<" ","k","m">> ELSE NA

\* The draw calls of the body, in order (fonts, margins and ln() left out).
pdf_body(record) ==
  Statements(<<
    << multi_cell(<<"T","a","x","i"," ","E","x","p","e","n","s","e"," ","J","u","s","t","i","f","i","c","a","t","i","o","n"," ","F","o","r","m">>), multi_cell(<<"M","o","n","t","s","m","e","d"," ","H","K">>) >>,
    section(<<"E","m","p","l","o","y","e","e"," ","i","n","f","o","r","m","a","t","i","o","n">>),
    kv(<<"E","m","p","l","o","y","e","e"," ","N","a","m","e">>, Get(record, "employee_name", <<>>)),
    kv(<<"D","e","p","a","r","t","m","e","n","t">>, <<"S","e","r","v","i","c","e"," ","E","n","g","i","n","e","e","r","i","n","g">>),
    kv(<<"P","o","s","i","t","i","o","n">>, <<"S","e","r","v","i","c","e"," ","E","n","g","i","n","e","e","r">>),
    kv(<<"D","a","t","e"," ","o","f"," ","S","u","b","m","i","s","s","i","o","n">>, Get(record, "submission_date", <<>>)),
    section(<<"T","r","i","p"," ","d","e","t","a","i","l","s">>),
    kv(<<"D","a","t","e"," ","o","f"," ","T","r","a","v","e","l">>, Get(record, "date_of_travel", <<>>)),
    kv(<<"T","i","m","e"," ","o","f"," ","T","r","a","v","e","l">>, Get(record, "time_of_travel", <<>>)),
    kv(<<"F","r","o","m">>, Get(record, "from_location", <<>>)),
    kv(<<"T","o">>, Get(record, "to_location", <<>>)),
    kv(<<"T","a","x","i"," ","F","a","r","e"," ","A","m","o","u","n","t">>, pdf_fare(record)),
    kv(<<"R","e","c","e","i","p","t"," ","N","u","m","b","e","r">>, Get(record, "receipt_number", <<>>)),
    section(<<"J","u","s","t","i","f","i","c","a","t","i","o","n">>),
    kv(<<"P","r","i","m","a","r","y"," ","R","e","a","s","o","n","s">>, OrElse(join(<<","," ">>, Get(record, "primary_reasons", <<>>)), NA)),
    kv(<<"O","t","h","e","r"," ","(","d","e","t","a","i","l","s",")">>, OrElse(Get(record, "reason_other", <<>>), NA)),
    section(<<"W","o","r","k"," ","d","e","t","a","i","l","s">>),
    kv(<<"C","l","i","e","n","t","/","C","u","s","t","o","m","e","r">>, Get(record, "client", <<>>)),
    kv(<<"T","y","p","e"," ","o","f"," ","S","e","r","v","i","c","e">>, Get(record, "service_type", <<>>)),
    kv(<<"E","q","u","i","p","m","e","n","t"," ","(","i","f"," ","a","n","y",")">>, OrElse(Get(record, "equipment", <<>>), NA)),
    << cell(<<"B","r","i","e","f"," ","D","e","s","c","r","i","p","t","i","o","n",":">>),
       multi_cell(OrElse(Get(record, "work_description", <<>>), NA)) >>,
    section(<<"R","e","c","e","i","p","t"," ","i","n","f","o">>),
    kv(<<"R","e","c","e","i","p","t"," ","A","t","t","a","c","h","e","d">>, Get(record, "receipt_type", <<>>)),
    kv(<<"T","a","x","i"," ","L","i","c","e","n","s","e"," ","P","l","a","t","e">>, Get(record, "license_plate", <<>>)),
    kv(<<"S","t","a","r","t"," ","T","i","m","e">>, Get(record, "start_time", <<>>)),
    kv(<<"E","n","d"," ","T","i","m","e">>, Get(record, "end_time", <<>>)),
    kv(<<"D","i","s","t","a","n","c","e">>, pdf_distance(record)) >>)

\* A call either returns a value or raises.
Return(v) == [ok |-> TRUE, value |-> v]

Raise(e) == [ok |-> FALSE, exc |-> e]

\* The first statement after the constructor reads Path and raises; the
\* statements after the return (a second copy of the body) are never reached.
pdf_from_record(record) ==
  IF ~PathIsBound THEN Raise("name 'Path' is not defined")
  ELSE Return(pdf_body(record))

\* ------------------------------------------------------------ the script

VARIABLES
  records,     \* st.session_state.records
  form,        \* the widget values of the last run
  submitted,   \* whether the last run was started by the Submit button
  errors,      \* the st.error messages of the last run, in order
  success,     \* whether the last run showed st.success
  preview,     \* the printable summary shown by the last run, or None
  downloads,   \* the download buttons offered by the last run, in order
  warnings,    \* the st.warning messages of the last run
  dataframe,   \* the saved-entries table shown by the last run, or None
  exception,   \* whether the last run ended in an uncaught exception
  csv_quotes_cr  \* whether the interpreter's csv module always quotes "\r"

vars ==
  << records, form, submitted, errors, success, preview, downloads, warnings,
     dataframe, exception, csv_quotes_cr >>

EmptyDict == [k \in {} |-> <<>>]

init_state(session_state) ==
  IF "records" \notin DOMAIN session_state THEN [records |-> <<>>] ELSE session_state

DownloadButton(label, data, file_name, mime) ==
  [label |-> label, data |-> data, file_name |-> file_name, mime |-> mime]

\* The receipt offered back when a file was uploaded.
ReceiptDownload(form_) ==
  IF form_.receipt_file # None
  THEN << DownloadButton("Download uploaded receipt", form_.receipt_file[1].data,
                         form_.receipt_file[1].name,
                         OrElse(form_.receipt_file[1].type, <<"a","p","p","l","i","c","a","t","i","o","n","/","o","c","t","e","t","-","s","t","r","e","a","m">>)) >>
  ELSE <<>>

PdfFileName(record) ==
  <<"t","a","x","i","_","e","x","p","e","n","s","e","_">> \o Get(record, "submission_date", <<>>) \o <<".","p","d","f">>

PdfDownload(record, data) ==
  << DownloadButton("Download PDF summary", data, PdfFileName(record), <<"a","p","p","l","i","c","a","t","i","o","n","/","p","d","f">>) >>

\* An exception that leaves the try statement uncaught.
ExceptUncaught(record, r) ==
  IF r.ok THEN [downloads |-> PdfDownload(record, r.value), warnings |-> <<>>, raised |-> FALSE]
  ELSE [downloads |-> <<>>, warnings |-> <<>>, raised |-> TRUE]

\* try: ... st.download_button(...)  except Exception as e: st.warning(...)
\* for the outcome r of the call of pdf_from_record
Except(record, r) ==
  IF r.ok THEN [downloads |-> PdfDownload(record, r.value), warnings |-> <<>>, raised |-> FALSE]
  ELSE [ downloads |-> <<>>, warnings |-> << "PDF generation failed: " \o r.exc >>,
         raised |-> FALSE ]

TryPdf(record) == Except(record, pdf_from_record(record))

\* What a run shows above the data section, and the list it leaves.
Rejected(recs, errs) ==
  [ records |-> recs, errors |-> errs, success |-> FALSE, preview |-> None,
    downloads |-> <<>>, warnings |-> <<>>, raised |-> FALSE ]

\* The else branch from st.session_state.records.append(record) on, for the
\* outcome pdf of the try statement.
Accepted(recs, form_, record, pdf) ==
  [ records |-> append(recs, record), errors |-> <<>>, success |-> TRUE,
    preview |-> Some(to_printable_html(record)),
    downloads |-> ReceiptDownload(form_) \o pdf.downloads,
    warnings |-> pdf.warnings, raised |-> pdf.raised ]

Accept(recs, form_, record) == Accepted(recs, form_, record, TryPdf(record))

\* if submitted: ...
HandleSubmission(recs, form_) ==
  IF Errors(form_) # <<>> THEN Rejected(recs, Errors(form_))
  ELSE Accept(recs, form_, BuildRecord(form_))

NotSubmitted(recs) ==
  [ records |-> recs, errors |-> <<>>, success |-> FALSE, preview |-> None,
    downloads |-> <<>>, warnings |-> <<>>, raised |-> FALSE ]

\* The "Saved entries (this session)" section.
DataSection(recs, quotes_cr) ==
  IF recs # <<>>
  THEN [ dataframe |-> Some(SavedEntries(recs)),
         downloads |-> << DownloadButton("Download CSV", record_to_csv_bytes(recs, quotes_cr),
                                         <<"t","a","x","i","_","e","x","p","e","n","s","e","s",".","c","s","v">>, <<"t","e","x","t","/","c","s","v">>) >> ]
  ELSE [ dataframe |-> None, downloads |-> <<>> ]

\* An uncaught exception ends the run before the data section.
NoDataSection == [dataframe |-> None, downloads |-> <<>>]

RunResult(h, d) ==
  [ records |-> h.records, errors |-> h.errors, success |-> h.success,
    preview |-> h.preview, downloads |-> h.downloads \o d.downloads,
    warnings |-> h.warnings, dataframe |-> d.dataframe, exception |-> h.raised ]

ThenDataSection(h, quotes_cr) ==
  RunResult(h, IF h.raised THEN NoDataSection ELSE DataSection(h.records, quotes_cr))

\* One run of the script from top to bottom.
Script(session_state, form_, submitted_, quotes_cr) ==
  ThenDataSection(IF submitted_ THEN HandleSubmission(init_state(session_state).records, form_)
                  ELSE NotSubmitted(init_state(session_state).records),
                  quotes_cr)

Shows(run, form_, submitted_) ==
  /\ records' = run.records
  /\ form' = form_
  /\ submitted' = submitted_
  /\ errors' = run.errors
  /\ success' = run.success
  /\ preview' = run.preview
  /\ downloads' = run.downloads
  /\ warnings' = run.warnings
  /\ dataframe' = run.dataframe
  /\ exception' = run.exception
  /\ UNCHANGED csv_quotes_cr   \* the interpreter stays the same for the session

\* ------------------------------------------------------------ the forms

Date(y, m, d) == [y |-> y, m |-> m, d |-> d]

Time(h, mi) == [h |-> h, mi |-> mi]

\* An uploaded file: its name, its size in bytes, its declared MIME type and
\* its content (getvalue()), for which the name stands.
UploadedFile(name, size, type) == [name |-> name, size |-> size, type |-> type, data |-> name]

\* The widgets' initial values.
DefaultForm ==
  [ employee_name |-> <<>>, date_submission |-> Date(2024, 3, 5),
    date_of_travel |-> Date(2024, 3, 5), from_location |-> <<>>, fare_amount |-> Some(0),
    receipt_number |-> <<>>, time_of_travel |-> Time(9, 5), to_location |-> <<>>,
    license_plate |-> <<>>, checked |-> {}, other_text |-> <<>>, client |-> <<>>,
    equipment |-> <<>>, service_type |-> ServiceTypes[2], work_description |-> <<>>,
    receipt_type |-> ReceiptTypes[2], receipt_file |-> None, start_time |-> None,
    end_time |-> None, distance_km |-> 0 ]

\* A form that passes every check, with every optional field left empty.
BaseForm ==
  [ DefaultForm EXCEPT !.employee_name = <<"J","a","n","e"," ","D","o","e">>, !.from_location = <<"O","f","f","i","c","e">>,
                       !.to_location = <<"C","l","i","e","n","t"," ","S","i","t","e">>, !.fare_amount = Some(45500),
                       !.checked = {EmergencyCall}, !.work_description = <<"U","r","g","e","n","t"," ","r","e","p","a","i","r">> ]

SmallFile == UploadedFile(<<"r",".","p","n","g">>, 1024 * 1024, <<"i","m","a","g","e","/","p","n","g">>)

LimitFile == UploadedFile(<<"r",".","p","d","f">>, 8 * 1024 * 1024, <<>>)

BigFile == UploadedFile(<<"b","i","g",".","p","d","f">>, 9 * 1024 * 1024, <<"a","p","p","l","i","c","a","t","i","o","n","/","p","d","f">>)

\* Forms that pass, with markup characters, line breaks and surrounding
\* whitespace in the free texts and with the optional fields filled in or not.
RenderForms ==
  { BaseForm,
    [ BaseForm EXCEPT !.employee_name = <<" "," ","<","b",">","J","a","n","e","<","/","b",">"," ">>, !.fare_amount = Some(12346),
                      !.receipt_number = <<"R","-","1">>, !.client = <<"A","&","B"," ","C","o">>,
                      !.equipment = <<"P","r","o","b","e","\n","C","a","b","l","e">>, !.license_plate = <<"A","B","1","2","3">>,
                      !.work_description = <<"L","i","n","e","1","\n","L","i","n","e","2">>, !.start_time = Some(Time(9, 5)),
                      !.end_time = Some(Time(9, 40)), !.distance_km = 35,
                      !.receipt_file = Some(SmallFile),
                      !.date_submission = Date(2024, 11, 30) ],
    [ BaseForm EXCEPT !.checked = {EquipmentTransport, Other},
                      !.other_text = <<" ","n","o"," ","b","u","s",","," ","<","i",">","l","a","t","e","<","/","i",">"," ">>,
                      !.work_description = <<" ","x"," ","<"," ","y"," ">>, !.fare_amount = Some(0),
                      !.receipt_file = Some(LimitFile), !.service_type = ServiceTypes[3] ],
    [ BaseForm EXCEPT !.checked = {EmergencyCall, TimeCritical, WeatherSafety},
                      !.equipment = <<"P","r","o","b","e",","," ","2"," ","\"","l","o","n","g","\""," ","c","a","b","l","e","s">>, !.distance_km = 120,
                      !.receipt_type = ReceiptTypes[3],
                      !.date_of_travel = Date(2024, 3, 4), !.time_of_travel = Time(23, 0),
                      !.employee_name = << "U+3000", "\f" >> \o <<"J","a","n","e"," ","D","o","e">> \o << "U+000B" >>,
                      !.client = <<"a","\r","b">>, !.fare_amount = Some(2675) ] }

\* Forms that fail one or several checks.
RejectedForms ==
  { [ BaseForm EXCEPT !.fare_amount = Some(-1000) ],
    [ BaseForm EXCEPT !.receipt_file = Some(BigFile) ],
    [ BaseForm EXCEPT !.checked = {Other} ],
    [ BaseForm EXCEPT !.employee_name = <<" ">>, !.from_location = <<>>,
                      !.to_location = << "\f", "U+00A0" >>, !.work_description = <<" ","\n">> ] }

SessionForms == RenderForms \cup RejectedForms

\* Every combination of a passing and a failing value of each checked field.
ValidationForms ==
  { [ BaseForm EXCEPT !.employee_name = n, !.from_location = f, !.to_location = t,
                      !.fare_amount = a, !.checked = c[1], !.other_text = c[2],
                      !.work_description = w, !.receipt_file = u ] :
      n \in { <<>>, <<"J","a","n","e"," ","D","o","e">> }, f \in { << " ", "\f", "U+00A0" >>, <<"O","f","f","i","c","e">> },
      t \in { <<>>, <<"C","l","i","e","n","t"," ","S","i","t","e">> }, a \in { Some(-1000), Some(-1), Some(1005) },
      c \in { << {}, <<>> >>, << {EmergencyCall}, <<>> >>, << {EmergencyCall, Other}, <<>> >>,
              << {Other}, <<" "," ">> >>, << {Other}, <<"w","h","y">> >> },
      w \in { <<"\n">>, <<"U","r","g","e","n","t"," ","r","e","p","a","i","r">> },
      u \in { None, Some(LimitFile), Some(BigFile) } }

\* ------------------------------------------------------------ behaviours

\* The first run of the script in a new session.
FirstRun(run) ==
  /\ records = run.records
  /\ submitted = FALSE
  /\ errors = run.errors
  /\ success = run.success
  /\ preview = run.preview
  /\ downloads = run.downloads
  /\ warnings = run.warnings
  /\ dataframe = run.dataframe
  /\ exception = run.exception

Init ==
  /\ csv_quotes_cr \in BOOLEAN
  /\ form = DefaultForm
  /\ FirstRun(Script(EmptyDict, DefaultForm, FALSE, csv_quotes_cr))

\* The user fills in the form and presses Submit.
Submit(f) ==
  /\ Len(records) < MaxRecords
  /\ Shows(Script([records |-> records], f, TRUE, csv_quotes_cr), f, TRUE)

\* Any other interaction (a download button) runs the script again.
Rerun ==
  /\ Shows(Script([records |-> records], form, FALSE, csv_quotes_cr), form, FALSE)

SubmitSession == \E f \in SessionForms : Submit(f)

Next == SubmitSession \/ Rerun

Spec == Init /\ [][Next]_vars

\* The validator on its own: the form is filled in with any of the
\* validation forms, then submitted as it stands.
InitValidate ==
  /\ csv_quotes_cr \in BOOLEAN
  /\ form \in ValidationForms
  /\ FirstRun(Script(EmptyDict, DefaultForm, FALSE, csv_quotes_cr))

SubmitForm == Submit(form)

NextValidate == SubmitForm \/ Rerun

SpecValidate == InitValidate /\ [][NextValidate]_vars

\* ------------------------------------------------------------ properties

Last(s) == s[Len(s)]

CountChar(s, c) == Cardinality({i \in 1..Len(s) : s[i] = c})

\* Blank after trimming: every character is whitespace.
Blank(s) == \A i \in 1..Len(s) : s[i] \in Whitespace

Trimmed(s) == s # <<>> /\ s[1] \notin Whitespace /\ s[Len(s)] \notin Whitespace

TooBig(f) == f.receipt_file # None /\ f.receipt_file[1].size > 8388608

OtherChecked(f) == Other \in f.checked

Indicator(b) == IF b THEN 1 ELSE 0

Accepted_ == submitted /\ success

\* The download buttons of the last run with the given label.
Offered(label) == {i \in 1..Len(downloads) : downloads[i].label = label}

\* The texts the summary puts in at the replacement fields of one record key.
FieldTexts(html, name) ==
  {html[i].text : i \in {j \in 1..Len(html) : "field" \in DOMAIN html[j] /\ html[j].field = name}}

\* C1: a submission with a non-empty error list leaves the record list as it
\* was, and so does one whose fare is negative or whose file exceeds 8 MiB.
C1_AllOrNothing ==
  [][ (submitted' /\ (errors' # <<>> \/ form'.fare_amount[1] < 0 \/ TooBig(form')))
        => records' = records ]_vars

C1_Witness ==
  /\ submitted
  /\ errors = << "Fare amount must be a non-negative number." >>
  /\ Len(records) >= 1

\* C2: every stored record has fare_amount >= 0, at least one reason, an
\* other-justification when "Other" is a reason, and trimmed non-empty
\* employee name, origin, destination and work description; and a submission
\* is accepted only with no file or a file of at most 8 MiB.
RecordInvariant(r) ==
  /\ (~r.fare_amount.neg \/ r.fare_amount.cents = 0)
  /\ r.primary_reasons # <<>>
  /\ InSeq(Other, r.primary_reasons) => r.reason_other # <<>>
  /\ \A k \in {"employee_name", "from_location", "to_location", "work_description"} :
       Trimmed(r[k])

C2_StoredRecordsValid ==
  /\ \A i \in 1..Len(records) : RecordInvariant(records[i])
  /\ Accepted_ => ~TooBig(form)

C2_Witness ==
  /\ Accepted_
  /\ form.receipt_file # None /\ form.receipt_file[1].size = 8388608
  /\ InSeq(Other, Last(records).primary_reasons)
  /\ Len(form.work_description) > Len(Last(records).work_description)

\* C3 as stated: the number of errors is the number of violated invariants
\* among the five of the data model, the four required texts counting as one.
ViolatedInvariants(f) ==
    Indicator(f.fare_amount[1] < 0)
  + Indicator(f.checked = {})
  + Indicator(OtherChecked(f) /\ Blank(f.other_text))
  + Indicator(\/ Blank(f.employee_name) \/ Blank(f.from_location)
              \/ Blank(f.to_location) \/ Blank(f.work_description))
  + Indicator(TooBig(f))

C3_OneErrorPerInvariant == submitted => Len(errors) = ViolatedInvariants(form)

\* C3 amended: the number of errors is the number of violated checks, the
\* four required texts being checked one by one (eight checks in all).
ViolatedChecks(f) ==
    Indicator(Blank(f.employee_name)) + Indicator(Blank(f.from_location))
  + Indicator(Blank(f.to_location)) + Indicator(f.fare_amount[1] < 0)
  + Indicator(f.checked = {}) + Indicator(OtherChecked(f) /\ Blank(f.other_text))
  + Indicator(Blank(f.work_description)) + Indicator(TooBig(f))

C3_OneErrorPerCheck ==
  /\ submitted => Len(errors) = ViolatedChecks(form)
  /\ submitted => (success <=> ViolatedChecks(form) = 0)

C3_Witness == submitted /\ Len(errors) = 7 /\ ViolatedInvariants(form) = 4

\* C4: a failure of pdf_from_record is shown as a warning and never as an
\* uncaught exception; the record of that submission is in the store; every
\* record of the store is in the saved-entries table and in the CSV export of
\* this run; and no later run removes or changes a stored record.
OfferedIn(dls, label) == {i \in 1..Len(dls) : dls[i].label = label}

AllDisplayed(recs, table, dls, exc) ==
  /\ ~exc
  /\ recs # <<>> =>
       /\ table = Some(SavedEntries(recs))
       /\ Len(table[1].rows) = Len(recs)
       /\ Cardinality(OfferedIn(dls, "Download CSV")) = 1
       /\ \A i \in OfferedIn(dls, "Download CSV") :
            /\ Len(dls[i].data) = Len(recs) + 1
            /\ dls[i].data = record_to_csv_bytes(recs, csv_quotes_cr)

C4_RenderFailureKeepsRecord ==
  [][ /\ AllDisplayed(records', dataframe', downloads', exception')
      /\ (submitted' /\ errors' = <<>> /\ ~pdf_from_record(BuildRecord(form')).ok) =>
           /\ warnings' # <<>>
           /\ records' = Append(records, BuildRecord(form'))
      /\ \A i \in 1..Len(records) : Len(records') >= i /\ records'[i] = records[i] ]_vars

C4_Witness ==
  /\ Accepted_ /\ warnings = << "PDF generation failed: name 'Path' is not defined" >>
  /\ Len(records) = 2 /\ Last(records) = BuildRecord(form)
  /\ dataframe # None /\ Len(dataframe[1].rows) = 2

\* C5: the record list of a state is a prefix of the list of the next state;
\* an accepted submission adds exactly one record, at the end; a rejected
\* submission and a run without submission add none.
C5_AppendOnly ==
  [][ /\ Len(records') >= Len(records)
      /\ SubSeq(records', 1, Len(records)) = records
      /\ (submitted' /\ errors' = <<>>) => Len(records') = Len(records) + 1
      /\ ~(submitted' /\ errors' = <<>>) => records' = records ]_vars

C5_Witness ==
  /\ Accepted_ /\ Len(records) = 2 /\ records[1] # records[2]

\* C6: after an accepted submission exactly one PDF download is offered, named
\* taxi_expense_<submission_date>.pdf for the record's own submission date,
\* with MIME type application/pdf.
C6_PdfOffered ==
  Accepted_ =>
    /\ Cardinality(Offered("Download PDF summary")) = 1
    /\ \A i \in Offered("Download PDF summary") :
         /\ downloads[i].file_name
              = <<"t","a","x","i","_","e","x","p","e","n","s","e","_">> \o Last(records).submission_date \o <<".","p","d","f">>
         /\ downloads[i].mime = <<"a","p","p","l","i","c","a","t","i","o","n","/","p","d","f">>

\* C7: the CSV export of a non-empty store has the record field names without
\* primary_reasons as its header, then one row per record in insertion order.
C7_CsvHeaderWithoutReasons ==
  records # <<>> =>
    /\ Cardinality(Offered("Download CSV")) = 1
    /\ \A i \in Offered("Download CSV") :
         /\ downloads[i].data[1] = SelectSeq(Columns, LAMBDA c : c # "primary_reasons")
         /\ Len(downloads[i].data) = Len(records) + 1
         /\ \A k \in 1..Len(records) :
              downloads[i].data[k + 1][4] = records[k].submission_date

\* C8: in the HTML summary and in the PDF's label/value blocks every empty
\* optional value is shown as N/A.
OptionalFields ==
  { "receipt_number", "reason_other", "client", "equipment", "license_plate",
    "start_time", "end_time", "distance_km" }

C8_PlaceholderForEmpty ==
  Accepted_ =>
    \A k \in OptionalFields :
      Last(records)[k] = <<>> =>
        /\ FieldTexts(preview[1], k) = {NA}
        /\ kv_text(Last(records)[k]) = NA

\* C9: no '<', '>' or '&' of a user-entered text reaches the HTML summary
\* unescaped: the text put in for such a field holds no '<' or '>' beyond
\* those of the line-break markup, and no '&' that does not start an entity.
UserFields ==
  { "employee_name", "from_location", "to_location", "receipt_number", "reason_other",
    "client", "equipment", "work_description", "license_plate" }

StartsEntity(s, i) ==
  \E e \in { <<"&","a","m","p",";">>, <<"&","l","t",";">>, <<"&","g","t",";">>, <<"&","q","u","o","t",";">>, <<"&","#","x","2","7",";">> } :
    i + Len(e) - 1 <= Len(s) /\ SubSeq(s, i, i + Len(e) - 1) = e

Neutralized(text, raw) ==
  /\ CountChar(text, "<") <= CountChar(raw, "\n")
  /\ CountChar(text, ">") <= CountChar(raw, "\n")
  /\ \A i \in 1..Len(text) : text[i] = "&" => StartsEntity(text, i)

C9_MarkupNeutralized ==
  Accepted_ =>
    \A k \in UserFields : \A text \in FieldTexts(preview[1], k) :
      Neutralized(text, Last(records)[k])

\* C10: a line break in the work description, the other-justification or the
\* equipment text is a <br> in the HTML summary and separate lines of the PDF.
FreeTextFields == { "work_description", "reason_other", "equipment" }

BreaksKept(text, raw) ==
  CountChar(raw, "\n") > 0 =>
    /\ CountChar(text, "\n") = 0
    /\ \E i \in 1..(Len(text) - 3) : SubSeq(text, i, i + 3) = <<"<","b","r",">">>

PdfDrawsLines(raw) ==
  \E i \in Offered("Download PDF summary") :
    \E c \in 1..Len(downloads[i].data) :
      /\ downloads[i].data[c].op = "multi_cell"
      /\ Len(downloads[i].data[c].lines) = CountChar(raw, "\n") + 1
      /\ downloads[i].data[c].lines[1] = SubSeq(raw, 1, Len(downloads[i].data[c].lines[1]))

C10_LineBreaksKept ==
  Accepted_ =>
    \A k \in FreeTextFields :
      CountChar(Last(records)[k], "\n") > 0 =>
        /\ \A text \in FieldTexts(preview[1], k) : BreaksKept(text, Last(records)[k])
        /\ PdfDrawsLines(Last(records)[k])

====
